---- MODULE Spec2Model ----
(***************************************************************************)
(* Model of lstchain/irf/hdu_table.py: the DL3 event-list builder          *)
(* (create_event_list) and the two-level index builder                     *)
(* (create_obs_hdu_index), together with the module-level DEFAULT_HEADER   *)
(* they both copy.                                                         *)
(*                                                                         *)
(* A FITS header is a function from keyword to value.  Header objects live *)
(* in a heap addressed by the name of the Python variable that first holds *)
(* them, so that `x = y.copy()` (a new object) and `x = y` (an alias) are  *)
(* different things.  Values computed by the astronomy library (ICRS       *)
(* coordinates, name resolution) are kept as uninterpreted tuples.         *)
(***************************************************************************)
EXTENDS Integers, Sequences, FiniteSets, TLC

VARIABLES DEFAULT_HEADER, fits_dir, call

vars == <<DEFAULT_HEADER, fits_dir, call>>

(***************************************************************************)
(* Bounds of the model.                                                    *)
(***************************************************************************)
MaxEvents == 2
MaxList == 2

(***************************************************************************)
(* Headers and the heap of header objects.                                 *)
(***************************************************************************)
Put(h, k, v) == [x \in (DOMAIN h) \cup {k} |-> IF x = k THEN v ELSE h[x]]

Has(h, k) == k \in DOMAIN h

InitialDefaultHeader ==
  Put(Put(Put(<< >>,
      "HDUDOC", "https://github.com/open-gamma-ray-astro/gamma-astro-data-formats"),
      "HDUVERS", "0.2"),
      "HDUCLASS", "GADF")

Addr == {"DEFAULT_HEADER", "ev_header", "gti_header", "pnt_header",
         "hdu_header", "obs_header"}

NewHeap(dh) == [a \in Addr |-> IF a = "DEFAULT_HEADER" THEN dh ELSE << >>]

\* `x = src` : no new object, x is another name of src.
HeaderAlias(src, fresh) == src

\* `x = src.copy()` : x names the fresh object.
HeaderCopy(src, fresh) == fresh

\* The heap once the object bound by HeaderCopy exists.
Alloc(heap, src, fresh) == [heap EXCEPT ![fresh] = heap[src]]

RECURSIVE SetCards(_, _, _)
SetCards(heap, a, cards) ==
  IF Len(cards) = 0 THEN heap
  ELSE SetCards([heap EXCEPT ![a] = Put(@, cards[1][1], cards[1][2])],
                a, Tail(cards))

(***************************************************************************)
(* create_event_list                                                       *)
(***************************************************************************)
lam == 2800
DeadTimeUs == 26

\* 1/(1 + dead_time*lambda), in units of 1e-4.
DeadC == (10000 * 10000) \div (10000 + (DeadTimeUs * lam) \div 100)

RECURSIVE SumOf(_, _)
SumOf(s, f) == IF Len(s) = 0 THEN 0 ELSE s[1][f] + SumOf(Tail(s), f)

\* np.rad2deg of a value in milliradians, rounded to millidegrees.
Rad2Deg(mrad) == (mrad * 180000 + 1571) \div 3142

\* Time(..., format='unix')[0].to_value('iso', 'date'): the UTC day.
DateObs(t) == <<"iso-date", t \div 86400>>

\* Library results the code only passes on.
IcrsRa(alt, az, t) == <<"icrs.ra", alt, az, t>>
IcrsDec(alt, az, t) == <<"icrs.dec", alt, az, t>>
KnownSources == {"Crab"}
FromNameRa(name) == <<"ra", name>>
FromNameDec(name) == <<"dec", name>>

TStopFirst(data) == data[1].dragon_time

TStart(data) == data[1].dragon_time

TStop(data) == data[Len(data)].dragon_time

PointingRa(data) ==
  [i \in 1..Len(data) |->
     IcrsRa(data[i].pointing_alt, data[i].pointing_az, data[i].dragon_time)]

PointingDec(data) ==
  [i \in 1..Len(data) |->
     IcrsDec(data[i].pointing_alt, data[i].pointing_az, data[i].dragon_time)]

EventTable(data) ==
  [i \in 1..Len(data) |->
     [EVENT_ID |-> data[i].event_id,
      TIME |-> data[i].dragon_time,
      RA |-> IcrsRa(data[i].reco_alt, data[i].reco_az, data[i].dragon_time),
      DEC |-> IcrsDec(data[i].reco_alt, data[i].reco_az, data[i].dragon_time),
      ENERGY |-> data[i].reco_energy]]

GtiTable(data) == [START |-> <<TStart(data)>>, STOP |-> <<TStop(data)>>]

EvCards(data, run_number, source_name, mode) ==
  << <<"HDUCLAS1", "EVENTS">>,
     <<"OBS_ID", run_number>>,
     <<"DATE_OBS", DateObs(data[1].dragon_time)>>,
     <<"TSTART", TStart(data)>>,
     <<"TSTOP", TStop(data)>>,
     <<"MJDREFI", "40587">>,
     <<"MJDREFF", "0">>,
     <<"TIMEUNIT", "s">>,
     <<"TIMESYS", "UTC">>,
     <<"OBJECT", source_name>>,
     <<"OBS_MODE", mode>>,
     <<"N_TELS", data[1].tel_id>>,
     <<"TELLIST", <<"LST-", data[1].tel_id>> >>,
     <<"RA_PNT", PointingRa(data)>>,
     <<"DEC_PNT", PointingDec(data)>>,
     <<"ALT_PNT", Rad2Deg(SumOf(data, "pointing_alt") \div Len(data))>>,
     <<"AZ_PNT", Rad2Deg(data[1].pointing_az)>>,
     <<"RA_OBJ", FromNameRa(source_name)>>,
     <<"DEC_OBJ", FromNameDec(source_name)>>,
     <<"FOVALIGN", "ALTAZ">>,
     <<"ONTIME", TStop(data) - TStart(data)>>,
     <<"DEADC", DeadC>> >>

GtiCardsPasted(ev, run_number) ==
  << <<"HDUCLAS1", "EVENTS">>,
     <<"OBS_ID", run_number>>,
     <<"MJDREFI", ev["MJDREFI"]>>,
     <<"MJDREFF", ev["MJDREFF"]>>,
     <<"TIMESYS", ev["TIMESYS"]>>,
     <<"TIMEUNIT", ev["TIMEUNIT"]>> >>

GtiCards(ev, run_number) ==
  << <<"HDUCLAS1", "GTI">>,
     <<"OBS_ID", run_number>>,
     <<"MJDREFI", ev["MJDREFI"]>>,
     <<"MJDREFF", ev["MJDREFF"]>>,
     <<"TIMESYS", ev["TIMESYS"]>>,
     <<"TIMEUNIT", ev["TIMEUNIT"]>> >>

PntCardsNoAlt(ev, data, run_number) ==
  << <<"HDUCLAS1", "POINTING">>,
     <<"OBS_ID", run_number>>,
     <<"RA_PNT", PointingRa(data)>>,
     <<"DEC_PNT", PointingDec(data)>>,
     <<"AZ_PNT", ev["AZ_PNT"]>>,
     <<"TIME", TStart(data)>> >>

PntCards(ev, data, run_number) ==
  << <<"HDUCLAS1", "POINTING">>,
     <<"OBS_ID", run_number>>,
     <<"RA_PNT", PointingRa(data)>>,
     <<"DEC_PNT", PointingDec(data)>>,
     <<"ALT_PNT", ev["ALT_PNT"]>>,
     <<"AZ_PNT", ev["AZ_PNT"]>>,
     <<"TIME", TStart(data)>> >>

\* fits.BinTableHDU(table, header=header, name=name)
BinTableHDU(table, header, name) ==
  [data |-> table, header |-> Put(header, "EXTNAME", name)]

Raised(exc, dh) == [status |-> "raised", exc |-> exc, value |-> << >>, default |-> dh]

\* The whole call, from the module-level header dh it starts with: how it
\* ends, what it returns and the module-level header it leaves.
create_event_list(dh, data, run_number, source_name, mode) ==
  IF Len(data) = 0 THEN Raised("IndexError", dh)
  ELSE IF source_name \notin KnownSources THEN Raised("NameResolveError", dh)
  ELSE
    LET h0 == NewHeap(dh)
        ev == HeaderCopy("DEFAULT_HEADER", "ev_header")
        h1 == SetCards(Alloc(h0, "DEFAULT_HEADER", "ev_header"), ev,
                       EvCards(data, run_number, source_name, mode))
        h2 == SetCards(h1, ev,
                << <<"LIVETIME", h1[ev]["DEADC"] * h1[ev]["ONTIME"]>> >>)
        gti == HeaderCopy("DEFAULT_HEADER", "gti_header")
        h3 == SetCards(Alloc(h2, "DEFAULT_HEADER", "gti_header"), gti,
                       GtiCards(h2[ev], run_number))
        pnt == HeaderCopy("DEFAULT_HEADER", "pnt_header")
        h4 == SetCards(Alloc(h3, "DEFAULT_HEADER", "pnt_header"), pnt,
                       PntCards(h3[ev], data, run_number))
    IN [status |-> "returned",
        exc |-> "none",
        value |-> << BinTableHDU(EventTable(data), h4[ev], "EVENTS"),
                     BinTableHDU(GtiTable(data), h4[gti], "GTI"),
                     BinTableHDU(<< >>, h4[pnt], "POINTING") >>,
        default |-> h4["DEFAULT_HEADER"]]

(***************************************************************************)
(* The files of fits_dir, as Table.read sees them.                         *)
(***************************************************************************)
FileNames == {"run1.fits", "run2.fits"}

RunOf(name) == IF name = "run1.fits" THEN 2001 ELSE 2002

BasicHdus == {"EVENTS", "GTI", "POINTING"}
IrfHdus == {"ENERGY DISPERSION", "EFFECTIVE AREA"}

\* One event of a DL2 table; angles in milliradians, times in unix seconds.
Dl2Event(id, t, alt) ==
  [event_id |-> id, dragon_time |-> t, pointing_alt |-> alt, pointing_az |-> 1571,
   reco_alt |-> alt + 2, reco_az |-> 1573, reco_energy |-> 5, tel_id |-> 1]

Dl2Events == {Dl2Event(1, 86390, 524), Dl2Event(2, 86410, 1047)}

RECURSIVE SeqsUpTo(_, _)
SeqsUpTo(S, n) ==
  IF n = 0 THEN {<< >>}
  ELSE LET shorter == SeqsUpTo(S, n - 1)
       IN shorter \cup {Append(s, x) : s \in {t \in shorter : Len(t) = n - 1}, x \in S}

\* The HDUs create_event_list builds for the run of each file name: what a DL3
\* file of fits_dir holds when nothing is wrong with it.
Dl3Hdus ==
  [name \in FileNames |->
     create_event_list(InitialDefaultHeader, << Dl2Event(1, 86390, 524) >>,
                       RunOf(name), "Crab", "WOBBLE").value]

\* A file of fits_dir: whether it exists, the HDUs that can be read from it,
\* and the header keys absent from its EVENTS and POINTING headers.
MissingFile ==
  [exists |-> FALSE, hdus |-> {}, evmiss |-> {}, pntmiss |-> {}]

Dl3File(irfs, bad, evmiss, pntmiss) ==
  [exists |-> TRUE, hdus |-> (BasicHdus \ bad) \cup irfs,
   evmiss |-> evmiss, pntmiss |-> pntmiss]

FileStates ==
  {MissingFile}
  \cup {Dl3File(IrfHdus, {b}, {}, {}) : b \in BasicHdus}
  \cup {Dl3File(irfs, {}, {}, {}) : irfs \in SUBSET IrfHdus}
  \cup {Dl3File(IrfHdus, {}, {k}, {}) : k \in {"OBS_ID", "DATE_OBS", "MJDREFI"}}
  \cup {Dl3File(IrfHdus, {}, {}, {"ALT_PNT"})}

Directories == [FileNames -> FileStates]

\* Table.read(filepath, hdu="EVENTS").meta and (..., hdu="POINTING").meta
EventsMeta(dir, name) ==
  LET ev == Dl3Hdus[name][1].header
  IN [k \in (DOMAIN ev) \ dir[name].evmiss |-> ev[k]]

PointingMeta(dir, name) ==
  LET pnt == Dl3Hdus[name][3].header
  IN [k \in (DOMAIN pnt) \ dir[name].pntmiss |-> pnt[k]]

\* Table.read(filepath, hdu=name) succeeds.
Readable(file, name) == name \in file.hdus

(***************************************************************************)
(* create_obs_hdu_index                                                    *)
(***************************************************************************)
EventsRow(obs_id, file) ==
  [OBS_ID |-> obs_id, HDU_TYPE |-> "events", HDU_CLASS |-> "events",
   HDU_CLASS2 |-> "", HDU_CLASS3 |-> "", HDU_CLASS4 |-> "",
   FILE_DIR |-> "", FILE_NAME |-> file, HDU_NAME |-> "events"]

GtiRow(t_events) ==
  [t_events EXCEPT !.HDU_TYPE = "gti", !.HDU_CLASS = "gti", !.HDU_NAME = "gti"]

PointingRow(t_events) ==
  [t_events EXCEPT !.HDU_TYPE = "pointing", !.HDU_CLASS = "pointing",
                   !.HDU_NAME = "pointing"]

EdispRow(t_events) ==
  [t_events EXCEPT !.HDU_TYPE = "edisp", !.HDU_CLASS = "edisp_2d",
                   !.HDU_CLASS2 = "EDISP", !.HDU_CLASS3 = "POINT-LIKE",
                   !.HDU_CLASS4 = "EDISP_2D", !.HDU_NAME = "ENERGY DISPERSION"]

AeffRow(t_edisp) ==
  [t_edisp EXCEPT !.HDU_TYPE = "aeff", !.HDU_CLASS = "aeff_2d",
                  !.HDU_CLASS2 = "AEFF", !.HDU_CLASS4 = "AEFF_2D",
                  !.HDU_NAME = "EFFECTIVE AREA"]

\* The keys the obs row reads, from the EVENTS and from the POINTING metadata.
ObsEventsKeys ==
  {"OBS_ID", "DATE_OBS", "RA_OBJ", "DEC_OBJ", "ONTIME", "LIVETIME", "DEADC",
   "TSTART", "TSTOP", "OBJECT", "OBS_MODE", "N_TELS", "TELLIST"}
ObsPointingKeys == {"RA_PNT", "DEC_PNT", "ALT_PNT", "AZ_PNT"}
ObsHeaderKeys == {"MJDREFI", "MJDREFF"}

\* ALT_PNT is in millidegrees, so is ZEN_PNT.
ObsRow(em, pm) ==
  [OBS_ID |-> em["OBS_ID"], DATE_OBS |-> em["DATE_OBS"],
   RA_PNT |-> pm["RA_PNT"], DEC_PNT |-> pm["DEC_PNT"],
   ZEN_PNT |-> 90 * 1000 - pm["ALT_PNT"], ALT_PNT |-> pm["ALT_PNT"],
   AZ_PNT |-> pm["AZ_PNT"], RA_OBJ |-> em["RA_OBJ"], DEC_OBJ |-> em["DEC_OBJ"],
   ONTIME |-> em["ONTIME"], LIVETIME |-> em["LIVETIME"], DEADC |-> em["DEADC"],
   TSTART |-> em["TSTART"], TSTOP |-> em["TSTOP"], OBJECT |-> em["OBJECT"],
   OBS_MODE |-> em["OBS_MODE"], N_TELS |-> em["N_TELS"], TELLIST |-> em["TELLIST"]]

\* The locals of the function before the loop.  A local that is not bound yet
\* is the empty sequence, a bound one a sequence of one value.
LoopStart ==
  [hdu_tables |-> << >>, obs_tables |-> << >>, hdu_iter |-> << >>, obs_iter |-> << >>,
   event_table |-> << >>, pointing_table |-> << >>, t_edisp |-> << >>,
   exc |-> "none", log |-> << >>]

Logged(st, msg, file) == [st EXCEPT !.log = Append(@, <<msg, file>>)]

\* Lines 113-126: the ENERGY DISPERSION row, when the HDU can be read, and
\* the local t_edisp after the block.
EdispRows(file, t_events) ==
  IF Readable(file, "ENERGY DISPERSION") THEN <<EdispRow(t_events)>> ELSE << >>

EdispLocal(t_edisp, file, t_events) ==
  IF Readable(file, "ENERGY DISPERSION") THEN <<EdispRow(t_events)>> ELSE t_edisp

\* Lines 129-140: the EFFECTIVE AREA row, copied from t_edisp; a t_edisp that
\* was never bound raises inside the try and is swallowed by the bare except.
AeffRows(file, t_edisp) ==
  IF Readable(file, "EFFECTIVE AREA") /\ Len(t_edisp) = 1
  THEN <<AeffRow(t_edisp[1])>> ELSE << >>

\* What the two blocks log.
IrfLog(file, t_edisp) ==
  (IF Readable(file, "ENERGY DISPERSION") THEN << >>
   ELSE << <<"Energy Dispersion HDU not found", "">> >>)
  \o (IF Readable(file, "EFFECTIVE AREA") /\ Len(t_edisp) = 1 THEN << >>
      ELSE << <<"Effective Area HDU not found", "">> >>)

\* Lines 143-166: the obs row; a key that is absent raises KeyError.
ObsKeysPresent(em, pm) ==
  ObsEventsKeys \subseteq DOMAIN em /\ ObsPointingKeys \subseteq DOMAIN pm

ObsRows(em, pm) == IF ObsKeysPresent(em, pm) THEN <<ObsRow(em, pm)>> ELSE << >>

\* n times the entry number i: the entry each of n appended rows belongs to.
Times(n, i) == [k \in 1..n |-> i]

\* Lines 77-166, once the three tables of entry i are read.
IndexFile(st, file, name, em, pm, i) ==
  IF ~Has(em, "OBS_ID")
  THEN [st EXCEPT !.event_table = <<em>>, !.pointing_table = <<pm>>,
                  !.exc = "KeyError"]
  ELSE
    LET t_events == EventsRow(em["OBS_ID"], name)
        t_edisp == EdispLocal(st.t_edisp, file, t_events)
        rows == <<t_events, GtiRow(t_events), PointingRow(t_events)>>
                \o EdispRows(file, t_events) \o AeffRows(file, t_edisp)
        obs == ObsRows(em, pm)
    IN [st EXCEPT !.event_table = <<em>>,
                  !.pointing_table = <<pm>>,
                  !.t_edisp = t_edisp,
                  !.hdu_tables = @ \o rows,
                  !.hdu_iter = @ \o Times(Len(rows), i),
                  !.obs_tables = @ \o obs,
                  !.obs_iter = @ \o Times(Len(obs), i),
                  !.log = @ \o IrfLog(file, t_edisp),
                  !.exc = IF Len(obs) = 1 THEN "none" ELSE "KeyError"]

\* One iteration of the loop of lines 59-166, for entry i of filename_list.
LoopBody(st, dir, name, i) ==
  IF ~dir[name].exists THEN Logged(st, "fits doesn't exist", name)
  ELSE IF ~Readable(dir[name], "EVENTS") THEN Logged(st, "fits corrupted", name)
  ELSE IF ~Readable(dir[name], "GTI") \/ ~Readable(dir[name], "POINTING")
  THEN [st EXCEPT !.event_table = <<EventsMeta(dir, name)>>,
                  !.log = Append(@, <<"fits corrupted", name>>)]
  ELSE IndexFile(st, dir[name], name, EventsMeta(dir, name),
                 PointingMeta(dir, name), i)

RECURSIVE Loop(_, _, _, _)
Loop(st, dir, filename_list, i) ==
  IF i > Len(filename_list) \/ st.exc # "none" THEN st
  ELSE Loop(LoopBody(st, dir, filename_list[i], i), dir, filename_list, i + 1)

HduHeaderCards ==
  << <<"HDUCLAS1", "INDEX">>, <<"HDUCLAS2", "HDU">>,
     <<"TELESCOP", "CTA">>, <<"INSTRUME", "LST-1">> >>

ObsHeaderCards(em) ==
  << <<"HDUCLAS2", "OBS">>, <<"MJDREFI", em["MJDREFI"]>>, <<"MJDREFF", em["MJDREFF"]>> >>

\* Lines 168-193, from the locals st the loop leaves: vstack raises on an
\* empty list; the HDU index is written, then the obs index, whose header
\* reads MJDREFI and MJDREFF from the last EVENTS table that was read.
WriteIndexFiles(dh, st) ==
  IF st.exc # "none" \/ Len(st.hdu_tables) = 0
  THEN [status |-> "raised",
        exc |-> IF st.exc # "none" THEN st.exc ELSE "ValueError",
        hdu |-> << >>, obs |-> << >>,
        hdu_iter |-> st.hdu_iter, obs_iter |-> st.obs_iter,
        log |-> st.log, default |-> dh]
  ELSE
    LET hdu == HeaderCopy("DEFAULT_HEADER", "hdu_header")
        h1 == SetCards(Alloc(NewHeap(dh), "DEFAULT_HEADER", "hdu_header"), hdu,
                       HduHeaderCards)
        obs == HeaderCopy(hdu, "obs_header")
        written == ObsHeaderKeys \subseteq DOMAIN st.event_table[1]
        h3 == IF written
              THEN SetCards(Alloc(h1, hdu, "obs_header"), obs,
                            ObsHeaderCards(st.event_table[1]))
              ELSE h1
    IN [status |-> IF written THEN "returned" ELSE "raised",
        exc |-> IF written THEN "none" ELSE "KeyError",
        hdu |-> <<BinTableHDU(st.hdu_tables, h1[hdu], "HDU INDEX")>>,
        obs |-> IF written
                THEN <<BinTableHDU(st.obs_tables, h3[obs], "OBS INDEX")>>
                ELSE << >>,
        hdu_iter |-> st.hdu_iter, obs_iter |-> st.obs_iter,
        log |-> st.log, default |-> h3["DEFAULT_HEADER"]]

\* The whole call, from the module-level header dh and the directory dir: how
\* it ends, the index files it wrote (none: the empty sequence), what it
\* logged, and the module-level header it leaves.  hdu_iter and obs_iter
\* give, for every row, the list entry that was being processed when the row
\* was appended.
create_obs_hdu_index(dh, dir, filename_list) ==
  WriteIndexFiles(dh, Loop(LoopStart, dir, filename_list, 1))

(***************************************************************************)
(* The program: the module-level header, a directory of DL3 files, and     *)
(* calls of the two routines in any order.  `call` is the last call: its   *)
(* arguments and its outcome `out` (how it ended, what it returned, the    *)
(* index files it wrote, and the module-level header it left).             *)
(***************************************************************************)
RunNumbers == {7, 8}
SourceNames == {"Crab", "NoSuchSource"}
Modes == {"WOBBLE"}

DataInputs == SeqsUpTo(Dl2Events, MaxEvents)
ListInputs == SeqsUpTo(FileNames, MaxList)

NoCall == [op |-> "none"]

Init ==
  /\ DEFAULT_HEADER = InitialDefaultHeader
  /\ fits_dir \in Directories
  /\ call = NoCall

CallEventList(data, run_number, source_name, mode) ==
  /\ call' = [op |-> "create_event_list", data |-> data,
              run_number |-> run_number, source_name |-> source_name,
              mode |-> mode,
              out |-> create_event_list(DEFAULT_HEADER, data, run_number,
                                        source_name, mode)]
  /\ DEFAULT_HEADER' = call'.out.default
  /\ UNCHANGED fits_dir

CallObsHduIndex(filename_list) ==
  /\ call' = [op |-> "create_obs_hdu_index", filename_list |-> filename_list,
              out |-> create_obs_hdu_index(DEFAULT_HEADER, fits_dir, filename_list)]
  /\ DEFAULT_HEADER' = call'.out.default
  /\ UNCHANGED fits_dir

Next ==
  \/ \E data \in DataInputs, run_number \in RunNumbers,
        source_name \in SourceNames, mode \in Modes :
       CallEventList(data, run_number, source_name, mode)
  \/ \E filename_list \in ListInputs :
       CallObsHduIndex(filename_list)

Spec == Init /\ [][Next]_vars

(***************************************************************************)
(* Vocabulary of the properties.                                           *)
(***************************************************************************)
IsEventCall == call.op = "create_event_list"
IsIndexCall == call.op = "create_obs_hdu_index"
EventListReturned == IsEventCall /\ call.out.status = "returned"

\* Entry i of the list of the last index call is an existing file whose
\* EVENTS, GTI and POINTING HDUs are readable.
ValidEntry(i) ==
  LET file == fits_dir[call.filename_list[i]]
  IN file.exists /\ BasicHdus \subseteq file.hdus

\* Entry i is such a file, and a header key the index builder reads is absent.
KeylessEntry(i) ==
  LET file == fits_dir[call.filename_list[i]]
  IN /\ ValidEntry(i)
     /\ \/ file.evmiss \cap (ObsEventsKeys \cup ObsHeaderKeys) # {}
        \/ file.pntmiss \cap ObsPointingKeys # {}

CompleteEntry(i) == ValidEntry(i) /\ ~KeylessEntry(i)

RECURSIVE ValidFrom(_)
ValidFrom(i) ==
  IF i > Len(call.filename_list) THEN << >>
  ELSE IF ValidEntry(i) THEN <<i>> \o ValidFrom(i + 1) ELSE ValidFrom(i + 1)

HduWritten == IsIndexCall /\ Len(call.out.hdu) = 1
ObsWritten == IsIndexCall /\ Len(call.out.obs) = 1

\* The rows of the index files the call wrote, and for each row the list entry
\* it was generated for.
HduRows == IF HduWritten THEN call.out.hdu[1].data ELSE << >>
HduIter == IF HduWritten THEN call.out.hdu_iter ELSE << >>
ObsIter == IF ObsWritten THEN call.out.obs_iter ELSE << >>

RECURSIVE IterOfTypeFrom(_, _)
IterOfTypeFrom(type, k) ==
  IF k > Len(HduRows) THEN << >>
  ELSE IF HduRows[k].HDU_TYPE = type
       THEN <<HduIter[k]>> \o IterOfTypeFrom(type, k + 1)
       ELSE IterOfTypeFrom(type, k + 1)

IterOfType(type) == IterOfTypeFrom(type, 1)

Range(s) == {s[k] : k \in 1..Len(s)}

Indexed(i) ==
  /\ \A type \in {"events", "gti", "pointing"} : i \in Range(IterOfType(type))
  /\ i \in Range(ObsIter)

SkipLogged(i) ==
  \E k \in 1..Len(call.out.log) :
    /\ call.out.log[k][2] = call.filename_list[i]
    /\ call.out.log[k][1] \in {"fits doesn't exist", "fits corrupted"}

(***************************************************************************)
(* C1: after create_obs_hdu_index, the observation index has exactly one   *)
(* row, and the HDU index exactly one 'events', one 'gti' and one          *)
(* 'pointing' row, for every list entry that is an existing file with      *)
(* readable EVENTS, GTI and POINTING HDUs, in the order of the list.       *)
(***************************************************************************)
C1_IndexCoversValidFiles ==
  IsIndexCall =>
    /\ ObsIter = ValidFrom(1)
    /\ \A type \in {"events", "gti", "pointing"} : IterOfType(type) = ValidFrom(1)

(***************************************************************************)
(* C2: a list entry that does not exist or whose EVENTS, GTI or POINTING   *)
(* HDU cannot be read is logged and contributes no row to either index,    *)
(* and every other entry that is a readable file is still indexed.         *)
(***************************************************************************)
C2_BadFileSkipped ==
  IsIndexCall =>
    \A i \in 1..Len(call.filename_list) :
      ~ValidEntry(i) =>
        /\ SkipLogged(i)
        /\ i \notin Range(HduIter) \cup Range(ObsIter)
        /\ \A j \in 1..Len(call.filename_list) : ValidEntry(j) => Indexed(j)

(***************************************************************************)
(* C3: a readable file whose EVENTS or POINTING metadata lacks a header    *)
(* key the index builder reads is skipped like a missing file: no          *)
(* KeyError leaves the call, the file has rows in neither index, and the   *)
(* files that lack nothing are indexed in the written files.               *)
(***************************************************************************)
C3_MissingKeySkipped ==
  IsIndexCall =>
    \A i \in 1..Len(call.filename_list) :
      KeylessEntry(i) =>
        /\ call.out.exc # "KeyError"
        /\ i \notin Range(HduIter) \cup Range(ObsIter)
        /\ \A j \in 1..Len(call.filename_list) : CompleteEntry(j) => Indexed(j)

(***************************************************************************)
(* C4: create_event_list returns exactly three HDUs, EVENTS, GTI and       *)
(* POINTING in this order, with HDUCLAS1 'EVENTS', 'GTI' and 'POINTING';   *)
(* each has OBS_ID equal to run_number and the default keys HDUDOC,        *)
(* HDUVERS and HDUCLASS.                                                   *)
(***************************************************************************)
C4_ThreeHdus ==
  EventListReturned =>
    LET v == call.out.value
        names == <<"EVENTS", "GTI", "POINTING">>
    IN /\ Len(v) = 3
       /\ \A i \in 1..3 :
            /\ v[i].header["EXTNAME"] = names[i]
            /\ v[i].header["HDUCLAS1"] = names[i]
            /\ v[i].header["OBS_ID"] = call.run_number
            /\ \A k \in {"HDUDOC", "HDUVERS", "HDUCLASS"} :
                 Has(v[i].header, k) /\ v[i].header[k] = InitialDefaultHeader[k]

C4_Witness == EventListReturned /\ call.run_number = 8

(***************************************************************************)
(* C5: after any sequence of calls DEFAULT_HEADER holds exactly HDUDOC,    *)
(* HDUVERS and HDUCLASS with their initial values, and the outcome of the  *)
(* last call is the one its arguments and the files give from the initial  *)
(* header, whatever was called before.                                     *)
(***************************************************************************)
C5_NoStateBetweenCalls ==
  /\ DOMAIN DEFAULT_HEADER = {"HDUDOC", "HDUVERS", "HDUCLASS"}
  /\ DEFAULT_HEADER = InitialDefaultHeader
  /\ IsEventCall =>
       call.out = create_event_list(InitialDefaultHeader, call.data, call.run_number,
                                    call.source_name, call.mode)
  /\ IsIndexCall =>
       call.out = create_obs_hdu_index(InitialDefaultHeader, fits_dir,
                                       call.filename_list)

C5_Witness ==
  /\ ObsWritten
  /\ call.out.obs[1].header["HDUCLAS2"] = "OBS"
  /\ call.out.hdu[1].header["HDUCLAS2"] = "HDU"
  /\ ~Has(DEFAULT_HEADER, "HDUCLAS2")

(***************************************************************************)
(* C6: in the written HDU index every indexed file has an 'edisp' row iff  *)
(* its ENERGY DISPERSION HDU is readable and an 'aeff' row iff its         *)
(* EFFECTIVE AREA HDU is readable, each decided on its own.                *)
(***************************************************************************)
C6_IrfRowsIndependent ==
  HduWritten =>
    \A i \in Range(IterOfType("events")) :
      LET file == fits_dir[call.filename_list[i]]
      IN /\ i \in Range(IterOfType("edisp")) <=> Readable(file, "ENERGY DISPERSION")
         /\ i \in Range(IterOfType("aeff")) <=> Readable(file, "EFFECTIVE AREA")

(***************************************************************************)
(* C7: every row of the written HDU index carries the OBS_ID and the       *)
(* FILE_NAME of the file that was being processed when it was appended.    *)
(***************************************************************************)
C7_RowDescribesItsFile ==
  HduWritten =>
    \A k \in 1..Len(HduRows) :
      LET name == call.filename_list[HduIter[k]]
      IN /\ HduRows[k].FILE_NAME = name
         /\ HduRows[k].OBS_ID = EventsMeta(fits_dir, name)["OBS_ID"]

(***************************************************************************)
(* C8: the EVENTS header create_event_list returns has every key the index *)
(* builder reads from the EVENTS metadata, the POINTING header every key   *)
(* it reads from the POINTING metadata, so the builder's obs row is built  *)
(* from them without a KeyError.                                           *)
(***************************************************************************)
C8_EventListIndexable ==
  EventListReturned =>
    LET ev == call.out.value[1].header
        pnt == call.out.value[3].header
    IN /\ {"OBS_ID", "DATE_OBS", "RA_OBJ", "DEC_OBJ", "ONTIME", "LIVETIME", "DEADC",
           "TSTART", "TSTOP", "OBJECT", "OBS_MODE", "N_TELS", "TELLIST",
           "MJDREFI", "MJDREFF"} \subseteq DOMAIN ev
       /\ {"RA_PNT", "DEC_PNT", "ALT_PNT", "AZ_PNT"} \subseteq DOMAIN pnt
       /\ (ObsEventsKeys \cup ObsHeaderKeys) \subseteq DOMAIN ev
       /\ ObsPointingKeys \subseteq DOMAIN pnt
       /\ Len(ObsRows(ev, pnt)) = 1

C8_Witness ==
  /\ EventListReturned
  /\ Len(call.data) = 1
  /\ Has(call.out.value[3].header, "ALT_PNT")

(***************************************************************************)
(* C9: the GTI table has one interval, from the dragon_time of the first   *)
(* event to the dragon_time of the last; the EVENTS header has TSTART =    *)
(* START, TSTOP = STOP and ONTIME = TSTOP - TSTART, the POINTING header    *)
(* TIME = TSTART, and the GTI header has the MJDREFI, MJDREFF, TIMESYS and *)
(* TIMEUNIT of the EVENTS header.                                          *)
(***************************************************************************)
C9_GtiInterval ==
  EventListReturned =>
    LET ev == call.out.value[1].header
        gti == call.out.value[2]
        pnt == call.out.value[3].header
    IN /\ gti.data.START = << call.data[1].dragon_time >>
       /\ gti.data.STOP = << call.data[Len(call.data)].dragon_time >>
       /\ ev["TSTART"] = gti.data.START[1]
       /\ ev["TSTOP"] = gti.data.STOP[1]
       /\ ev["ONTIME"] = ev["TSTOP"] - ev["TSTART"]
       /\ pnt["TIME"] = ev["TSTART"]
       /\ \A k \in {"MJDREFI", "MJDREFF", "TIMESYS", "TIMEUNIT"} :
            Has(gti.header, k) /\ gti.header[k] = ev[k]

C9_Witness ==
  /\ EventListReturned
  /\ Len(call.data) = 2
  /\ call.data[1].dragon_time # call.data[2].dragon_time

====
